---- MODULE Spec2Model ----
(***************************************************************************)
(* GCC setup cost calculator (app.py).                                     *)
(*                                                                         *)
(* The state is one POST /calculate request together with the three sheets *)
(* load_data() hands to calculate_costs(), and the outcome of the call:    *)
(* the 6-tuple calculate_costs returns, the exception its except-clause    *)
(* logged, and the kind of response the route produced.                    *)
(*                                                                         *)
(* Python floats are modelled as exact rationals in lowest terms           *)
(* ([num, den] records).  All sheet amounts are whole numbers, for which   *)
(* binary64 addition and multiplication are exact; only the hourly rate    *)
(* is a proper fraction, and the model keeps it exact instead of rounded.  *)
(***************************************************************************)
EXTENDS Integers, Sequences, FiniteSets, TLC

VARIABLES
    headcount,            \* int(request.form.get('headcount'))
    selected_city,        \* request.form.get('city')
    selected_plan,        \* request.form.get('plan')
    real_estate_toggle,
    it_infra_toggle,
    enabling_toggle,
    technology_toggle,
    real_estate_df,       \* sheet Real_Estate: sequence of rows
    it_infra_df,          \* sheet IT_Infra: sequence of rows
    plans_df,             \* sheet Plans: sequence of brackets
    result,               \* the tuple calculate_costs returned
    logged,               \* exception logged by calculate_costs, or "none"
    response,             \* what the route answered
    pc

vars == <<headcount, selected_city, selected_plan, real_estate_toggle,
          it_infra_toggle, enabling_toggle, technology_toggle,
          real_estate_df, it_infra_df, plans_df, result, logged, response, pc>>

request == <<headcount, selected_city, selected_plan, real_estate_toggle,
             it_infra_toggle, enabling_toggle, technology_toggle>>

sheets == <<real_estate_df, it_infra_df, plans_df>>

---------------------------------------------------------------------------
(* Bounds of the model *)

MaxRows == 2        \* rows in a cost sheet
MaxBrackets == 2    \* rows in the Plans sheet

---------------------------------------------------------------------------
(* Floats as exact rationals *)

RECURSIVE GCD(_, _)
GCD(a, b) == IF b = 0 THEN a ELSE GCD(b, a % b)

Abs(n) == IF n < 0 THEN -n ELSE n

\* den > 0
Frac(n, d) ==
    LET g == GCD(Abs(n), d)
    IN  [num |-> n \div g, den |-> d \div g]

\* float(x) of a whole number
Float(n) == [num |-> n, den |-> 1]

FAdd(a, b) == Frac(a.num * b.den + b.num * a.den, a.den * b.den)

\* a / n for a non-zero int n > 0
FDiv(a, n) == Frac(a.num, a.den * n)

None == [none |-> TRUE]

---------------------------------------------------------------------------
(* calculate_costs *)

usd_inr_rate == 85
hours_in_month == 120

NoneTuple ==
    [total_real_estate_cost |-> None, total_it_infra_cost |-> None,
     enab_cost |-> None, tech_cost |-> None, total_cost |-> None,
     hourly_cost_per_head_usd |-> None]

\* df[df["City"] == selected_city]
CityRows(df, city) == SelectSeq(df, LAMBDA row : row.City = city)

\* a miss answered with cost 0 instead of an exception
CostPerSeat_ZeroOnMiss(df, city) ==
    LET rows == SelectSeq(df, LAMBDA row : row.City = city)
    IN  IF rows = <<>>
        THEN [exc |-> "none", value |-> 0]
        ELSE [exc |-> "none", value |-> Head(rows).Cost_INR_PM]

\* .values[-1]: the last matching row instead of the first
CostPerSeat_LastRow(df, city) ==
    LET rows == SelectSeq(df, LAMBDA row : row.City = city)
    IN  IF rows = <<>>
        THEN [exc |-> "IndexError", value |-> 0]
        ELSE [exc |-> "none", value |-> rows[Len(rows)].Cost_INR_PM]

\* df[df["City"] == selected_city]["Cost_INR_PM"].values[0]
\* indexing the empty array raises IndexError
CostPerSeat(df, city) ==
    LET rows == CityRows(df, city)
    IN  IF rows = <<>>
        THEN [exc |-> "IndexError", value |-> 0]
        ELSE [exc |-> "none", value |-> Head(rows).Cost_INR_PM]

\* float(cost_per_seat * headcount)
SeatCost(cost_per_seat, hc) == Float(cost_per_seat * hc)

\* the lookup done whatever the toggle says
ToggledSeatCost_IgnoreToggle(toggle, seat, hc) == SeatCost(seat.value, hc)

\* cost stays 0.0 unless the category's toggle is on
ToggledSeatCost(toggle, seat, hc) ==
    IF toggle THEN SeatCost(seat.value, hc) ELSE Float(0)

\* for index, row in plans_df.iterrows(): first row with MinHC <= hc <= MaxHC;
\* 0 stands for plan_row = None
RECURSIVE ScanPlans(_, _, _)
ScanPlans(df, i, hc) ==
    IF i > Len(df) THEN 0
    ELSE IF df[i].MinHC <= hc /\ hc <= df[i].MaxHC THEN i
    ELSE ScanPlans(df, i + 1, hc)

\* the scan without its break: the last containing row wins
FindPlanRow_LastMatch(df, hc) ==
    LET hits == {i \in DOMAIN df : df[i].MinHC <= hc /\ hc <= df[i].MaxHC}
    IN  IF hits = {} THEN 0
        ELSE CHOOSE i \in hits : \A j \in hits : j <= i

\* no containing row: fall back to the first row instead of None
FindPlanRow_Fallback(df, hc) ==
    LET i == ScanPlans(df, 1, hc)
    IN  IF i = 0 /\ Len(df) > 0 THEN 1 ELSE i

FindPlanRow(df, hc) == ScanPlans(df, 1, hc)

\* Premium priced with the Basic field
EnabCost_WrongField(plan_row, plan, toggle) ==
    IF toggle
    THEN IF plan = "Basic" THEN Float(plan_row.Enab_Basic)
         ELSE IF plan = "Premium" THEN Float(plan_row.Enab_Basic)
         ELSE Float(plan_row.Enab_Advance)
    ELSE Float(0)

EnabCost(plan_row, plan, toggle) ==
    IF toggle
    THEN IF plan = "Basic" THEN Float(plan_row.Enab_Basic)
         ELSE IF plan = "Premium" THEN Float(plan_row.Enab_Premium)
         ELSE Float(plan_row.Enab_Advance)
    ELSE Float(0)

TechCost(plan_row, plan, toggle) ==
    IF toggle
    THEN IF plan = "Basic" THEN Float(plan_row.Tech_Basic)
         ELSE IF plan = "Premium" THEN Float(plan_row.Tech_Premium)
         ELSE Float(plan_row.Tech_Advance)
    ELSE Float(0)

\* the technology cost left out of the plan total
TotalPlanCost_DropTech(enab, tech) == enab

TotalPlanCost(enab, tech) == FAdd(enab, tech)

TotalCost(re, it, plan_cost) == FAdd(FAdd(re, it), plan_cost)

\* the division by headcount left out
HourlyCostPerHead_NoHeadcount(total, hc) ==
    FDiv(FDiv(total, hours_in_month), usd_inr_rate)

\* (total_cost / headcount / hours_in_month) / usd_inr_rate, headcount > 0
HourlyCostPerHead(total, hc) ==
    FDiv(FDiv(FDiv(total, hc), hours_in_month), usd_inr_rate)

Raised(e) == [out |-> NoneTuple, logged |-> e]

Returned(t) == [out |-> t, logged |-> "none"]

calculate_costs(hc, city, plan, re_toggle, it_toggle, en_toggle, te_toggle, re_df, it_df, pl_df) ==
    LET re_seat == CostPerSeat(re_df, city)
        it_seat == CostPerSeat(it_df, city)
        total_real_estate_cost ==
            ToggledSeatCost(re_toggle, re_seat, hc)
        total_it_infra_cost ==
            ToggledSeatCost(it_toggle, it_seat, hc)
        plan_row == FindPlanRow(pl_df, hc)
    IN  IF re_toggle /\ re_seat.exc # "none" THEN Raised(re_seat.exc)
        ELSE IF it_toggle /\ it_seat.exc # "none" THEN Raised(it_seat.exc)
        ELSE IF plan_row = 0 THEN Returned(NoneTuple)
        ELSE
          LET enab_cost == EnabCost(pl_df[plan_row], plan, en_toggle)
              tech_cost == TechCost(pl_df[plan_row], plan, te_toggle)
              total_plan_cost == TotalPlanCost(enab_cost, tech_cost)
              total_cost ==
                  TotalCost(total_real_estate_cost, total_it_infra_cost,
                            total_plan_cost)
          IN  IF hc = 0 THEN Raised("ZeroDivisionError")
              ELSE Returned(
                  [total_real_estate_cost |-> total_real_estate_cost,
                   total_it_infra_cost |-> total_it_infra_cost,
                   enab_cost |-> enab_cost,
                   tech_cost |-> tech_cost,
                   total_cost |-> total_cost,
                   hourly_cost_per_head_usd |->
                       HourlyCostPerHead(total_cost, hc)])

---------------------------------------------------------------------------
(* Inputs *)

Cities == {"CityA", "CityB"}

Plans == {"Basic", "Premium", "Advance"}

\* "Gold" stands for any plan name outside Plans
PlanNames == Plans \cup {"Gold"}

Headcounts == {0, 10, 45, 101}

RealEstateRows ==
    {[Tier |-> "Tier 1", City |-> "CityA", Cost_INR_PM |-> 10000],
     [Tier |-> "Tier 2", City |-> "CityA", Cost_INR_PM |-> 7000],
     [Tier |-> "Tier 2", City |-> "CityB", Cost_INR_PM |-> 8000]}

ITInfraRows ==
    {[Tier |-> "Tier 1", City |-> "CityA", Cost_INR_PM |-> 5000],
     [Tier |-> "Tier 2", City |-> "CityA", Cost_INR_PM |-> 3000],
     [Tier |-> "Tier 1", City |-> "CityB", Cost_INR_PM |-> 4000]}

Ranges == {<<1, 100>>, <<1, 50>>, <<40, 100>>, <<0, 50>>}

PriceLists ==
    {[Enab_Basic |-> 2000, Enab_Premium |-> 4000, Enab_Advance |-> 6000,
      Tech_Basic |-> 3000, Tech_Premium |-> 5000, Tech_Advance |-> 7000],
     [Enab_Basic |-> 8000, Enab_Premium |-> 12000, Enab_Advance |-> 16000,
      Tech_Basic |-> 9000, Tech_Premium |-> 13000, Tech_Advance |-> 17000]}

Bracket(r, p) ==
    [MinHC |-> r[1], MaxHC |-> r[2],
     Enab_Basic |-> p.Enab_Basic, Enab_Premium |-> p.Enab_Premium,
     Enab_Advance |-> p.Enab_Advance, Tech_Basic |-> p.Tech_Basic,
     Tech_Premium |-> p.Tech_Premium, Tech_Advance |-> p.Tech_Advance]

Brackets == {Bracket(r, p) : r \in Ranges, p \in PriceLists}

SeqsUpTo(S, n) == UNION {[1..k -> S] : k \in 0..n}

\* the sheets of the worked example
ExampleRealEstate ==
    <<[Tier |-> "Tier 1", City |-> "CityA", Cost_INR_PM |-> 10000]>>

ExampleITInfra ==
    <<[Tier |-> "Tier 1", City |-> "CityA", Cost_INR_PM |-> 5000]>>

ExamplePlans ==
    <<[MinHC |-> 1, MaxHC |-> 100,
       Enab_Basic |-> 2000, Enab_Premium |-> 4000, Enab_Advance |-> 6000,
       Tech_Basic |-> 3000, Tech_Premium |-> 5000, Tech_Advance |-> 7000]>>

Unset == [unset |-> TRUE]

---------------------------------------------------------------------------
(* The state machine *)

\* The request is any combination of form values.  The sheets are either
\* arbitrary cost sheets next to the example Plans sheet, or the example
\* cost sheets next to an arbitrary Plans sheet (overlapping, gapped or
\* empty bracket tables included).
Init ==
    /\ headcount \in Headcounts
    /\ selected_city \in Cities
    /\ selected_plan \in PlanNames
    /\ real_estate_toggle \in BOOLEAN
    /\ it_infra_toggle \in BOOLEAN
    /\ enabling_toggle \in BOOLEAN
    /\ technology_toggle \in BOOLEAN
    /\ \/ /\ real_estate_df \in SeqsUpTo(RealEstateRows, MaxRows)
          /\ it_infra_df \in SeqsUpTo(ITInfraRows, MaxRows)
          /\ plans_df = ExamplePlans
       \/ /\ real_estate_df = ExampleRealEstate
          /\ it_infra_df = ExampleITInfra
          /\ plans_df \in SeqsUpTo(Brackets, MaxBrackets)
    /\ result = Unset
    /\ logged = "none"
    /\ response = "none"
    /\ pc = "request"

\* POST /calculate
calculate ==
    /\ pc = "request"
    /\ LET r == calculate_costs(headcount, selected_city, selected_plan,
                                real_estate_toggle, it_infra_toggle,
                                enabling_toggle, technology_toggle,
                                real_estate_df, it_infra_df, plans_df)
       IN  /\ result' = r.out
           /\ logged' = r.logged
           /\ response' = IF r.out.total_cost = None THEN "error" ELSE "results"
    /\ pc' = "responded"
    /\ UNCHANGED <<request, sheets>>

Next == calculate

Spec == Init /\ [][Next]_vars

---------------------------------------------------------------------------
(* Vocabulary of the properties *)

Done == pc = "responded"

Succeeded == Done /\ result # NoneTuple

AllTogglesOff ==
    /\ ~real_estate_toggle
    /\ ~it_infra_toggle
    /\ ~enabling_toggle
    /\ ~technology_toggle

ValidRequest ==
    /\ headcount > 0
    /\ selected_plan \in Plans
    /\ selected_city \in Cities

ContainsHC(i, h) == plans_df[i].MinHC <= h /\ h <= plans_df[i].MaxHC

Contains(i) == ContainsHC(i, headcount)

HasBracket == \E i \in DOMAIN plans_df : Contains(i)

\* lowest table position whose range contains h
FirstBracketOf(h) ==
    CHOOSE i \in DOMAIN plans_df :
        ContainsHC(i, h) /\ \A j \in 1..(i - 1) : ~ContainsHC(j, h)

FirstBracket == FirstBracketOf(headcount)

CityIn(df) == \E i \in DOMAIN df : df[i].City = selected_city

\* lowest table position whose City is the requested city
FirstCityRow(df) ==
    CHOOSE i \in DOMAIN df :
        df[i].City = selected_city /\ \A j \in 1..(i - 1) : df[j].City # selected_city

EnabField(row, plan) ==
    CASE plan = "Basic" -> row.Enab_Basic
      [] plan = "Premium" -> row.Enab_Premium
      [] plan = "Advance" -> row.Enab_Advance

TechField(row, plan) ==
    CASE plan = "Basic" -> row.Tech_Basic
      [] plan = "Premium" -> row.Tech_Premium
      [] plan = "Advance" -> row.Tech_Advance

---------------------------------------------------------------------------
(* C1: whenever calculate_costs returns a result, its total_cost is the    *)
(* sum of the four category costs of that same result.                     *)
C1_TotalIsSumOfCategories ==
    Succeeded =>
        result.total_cost =
            FAdd(FAdd(FAdd(result.total_real_estate_cost,
                           result.total_it_infra_cost),
                      result.enab_cost),
                 result.tech_cost)

C1_Witness ==
    /\ Succeeded
    /\ real_estate_toggle /\ it_infra_toggle
    /\ enabling_toggle /\ technology_toggle
    /\ result.total_real_estate_cost # Float(0)
    /\ result.total_it_infra_cost # Float(0)
    /\ result.enab_cost # Float(0)
    /\ result.tech_cost # Float(0)

(* C2 as stated: every valid request with all four toggles off gets a      *)
(* result with total_cost 0 and hourly_cost_per_head_usd 0.                *)
C2_AllOffIsZero_AsStated ==
    Done /\ ValidRequest /\ AllTogglesOff =>
        /\ result # NoneTuple
        /\ result.total_cost = Float(0)
        /\ result.hourly_cost_per_head_usd = Float(0)

(* C2 amended: a valid request with all four toggles off whose headcount   *)
(* lies in some bracket of the Plans sheet gets a result with total_cost 0 *)
(* and hourly_cost_per_head_usd 0.                                         *)
C2_AllOffIsZero ==
    Done /\ ValidRequest /\ AllTogglesOff /\ HasBracket =>
        /\ result # NoneTuple
        /\ result.total_cost = Float(0)
        /\ result.hourly_cost_per_head_usd = Float(0)

C2_Witness ==
    /\ Done /\ ValidRequest /\ AllTogglesOff /\ HasBracket
    /\ CityIn(real_estate_df)
    /\ result.total_cost = Float(0)

(* C3: the bracket whose fields price enabling and technology is the one   *)
(* of lowest table position containing the headcount, also when a later    *)
(* bracket contains it too.                                                *)
C3_FirstMatchingBracket ==
    Succeeded /\ selected_plan \in Plans =>
        /\ HasBracket
        /\ enabling_toggle =>
              result.enab_cost =
                  Float(EnabField(plans_df[FirstBracket], selected_plan))
        /\ technology_toggle =>
              result.tech_cost =
                  Float(TechField(plans_df[FirstBracket], selected_plan))

C3_Witness ==
    /\ Succeeded /\ selected_plan \in Plans
    /\ enabling_toggle /\ technology_toggle
    /\ headcount = 45
    /\ Len(plans_df) = 2
    /\ plans_df[1].MinHC = 1 /\ plans_df[1].MaxHC = 50
    /\ plans_df[2].MinHC = 40 /\ plans_df[2].MaxHC = 100
    /\ plans_df[1].Enab_Basic # plans_df[2].Enab_Basic

(* C4: a request with headcount 0 fails without calculate_costs reaching   *)
(* the division by headcount, whatever the sheets and toggles.             *)
C4_ZeroHeadcountRejectedBeforeDivision ==
    Done /\ headcount = 0 =>
        /\ result = NoneTuple
        /\ logged # "ZeroDivisionError"

(* C5: a toggled-on category whose sheet has no row for the requested city *)
(* makes calculate_costs return the failure value, never a result.         *)
C5_MissingCityFails ==
    Done /\ \/ real_estate_toggle /\ ~CityIn(real_estate_df)
            \/ it_infra_toggle /\ ~CityIn(it_infra_df)
    => /\ result = NoneTuple
       /\ response = "error"

C5_Witness ==
    /\ Done /\ ValidRequest /\ HasBracket
    /\ real_estate_toggle /\ ~CityIn(real_estate_df)
    /\ ~it_infra_toggle
    /\ result = NoneTuple

(* C6: when no bracket contains the headcount all six outputs are None,    *)
(* whatever the toggles, also when only real estate / IT infra are priced  *)
(* and their lookups succeed.                                              *)
C6_NoBracketFailsWhole ==
    Done /\ ~HasBracket =>
        /\ result.total_real_estate_cost = None
        /\ result.total_it_infra_cost = None
        /\ result.enab_cost = None
        /\ result.tech_cost = None
        /\ result.total_cost = None
        /\ result.hourly_cost_per_head_usd = None

C6_Witness ==
    /\ Done /\ ValidRequest /\ ~HasBracket
    /\ plans_df # <<>>
    /\ ~enabling_toggle /\ ~technology_toggle
    /\ real_estate_toggle /\ CityIn(real_estate_df)
    /\ it_infra_toggle /\ CityIn(it_infra_df)
    /\ result = NoneTuple

(* C7: a plan name outside Basic, Premium, Advance never gets a cost       *)
(* breakdown when the enabling or technology toggle is on.                 *)
C7_UnknownPlanRejected ==
    Done /\ selected_plan \notin Plans /\ (enabling_toggle \/ technology_toggle)
    => result = NoneTuple

(* C8: for every result, hourly_cost_per_head_usd * headcount * 120 * 85   *)
(* equals total_cost exactly; and the worked example (10000 and 5000 per   *)
(* seat, Basic 2000 / 3000, headcount 10, all toggles on) yields 100000,   *)
(* 50000, 2000, 3000, total 155000.                                        *)
ExampleRequest ==
    /\ headcount = 10
    /\ selected_city = "CityA"
    /\ selected_plan = "Basic"
    /\ real_estate_toggle /\ it_infra_toggle
    /\ enabling_toggle /\ technology_toggle
    /\ real_estate_df = ExampleRealEstate
    /\ it_infra_df = ExampleITInfra
    /\ plans_df = ExamplePlans

C8_HourlyRate ==
    /\ Succeeded =>
          result.hourly_cost_per_head_usd.num * (headcount * 120 * 85)
              = result.total_cost.num * result.hourly_cost_per_head_usd.den
    /\ Done /\ ExampleRequest =>
          /\ result.total_real_estate_cost = Float(100000)
          /\ result.total_it_infra_cost = Float(50000)
          /\ result.enab_cost = Float(2000)
          /\ result.tech_cost = Float(3000)
          /\ result.total_cost = Float(155000)
          /\ result.hourly_cost_per_head_usd = [num |-> 155, den |-> 102]

C8_Witness == Done /\ ExampleRequest /\ result.total_cost = Float(155000)

(* C9: a toggled-on category costs headcount times the Cost_INR_PM of the  *)
(* first row, in table order, whose City is the requested city, whatever   *)
(* its Tier and whatever later rows say; a toggled-off category costs 0    *)
(* and its sheet is not consulted.                                         *)
C9_SeatCosts ==
    /\ Succeeded =>
          /\ real_estate_toggle =>
                /\ CityIn(real_estate_df)
                /\ result.total_real_estate_cost =
                      Float(headcount *
                            real_estate_df[FirstCityRow(real_estate_df)].Cost_INR_PM)
          /\ ~real_estate_toggle => result.total_real_estate_cost = Float(0)
          /\ it_infra_toggle =>
                /\ CityIn(it_infra_df)
                /\ result.total_it_infra_cost =
                      Float(headcount *
                            it_infra_df[FirstCityRow(it_infra_df)].Cost_INR_PM)
          /\ ~it_infra_toggle => result.total_it_infra_cost = Float(0)
    /\ /\ Done /\ ValidRequest /\ HasBracket
       /\ real_estate_toggle => CityIn(real_estate_df)
       /\ it_infra_toggle => CityIn(it_infra_df)
       => result # NoneTuple

C9_Witness ==
    /\ Succeeded
    /\ real_estate_toggle
    /\ Len(real_estate_df) = 2
    /\ real_estate_df[1].City = selected_city
    /\ real_estate_df[2].City = selected_city
    /\ real_estate_df[1].Tier # real_estate_df[2].Tier
    /\ real_estate_df[1].Cost_INR_PM # real_estate_df[2].Cost_INR_PM
    /\ ~it_infra_toggle /\ ~CityIn(it_infra_df)

(* C10: in every result for a known plan, enab_cost is 0 with the enabling *)
(* toggle off and otherwise the selected bracket's Enab_<plan> field;      *)
(* tech_cost likewise with the technology toggle and Tech_<plan>; another  *)
(* headcount selecting the same bracket gets the same two costs, and       *)
(* neither toggle changes the other's cost.                                *)
WithHeadcount(h) ==
    calculate_costs(h, selected_city, selected_plan,
                    real_estate_toggle, it_infra_toggle,
                    enabling_toggle, technology_toggle,
                    real_estate_df, it_infra_df, plans_df).out

WithPlanToggles(en, te) ==
    calculate_costs(headcount, selected_city, selected_plan,
                    real_estate_toggle, it_infra_toggle, en, te,
                    real_estate_df, it_infra_df, plans_df).out

C10_FlatPlanCosts ==
    Succeeded /\ selected_plan \in Plans =>
        /\ result.enab_cost =
              IF enabling_toggle
              THEN Float(EnabField(plans_df[FirstBracket], selected_plan))
              ELSE Float(0)
        /\ result.tech_cost =
              IF technology_toggle
              THEN Float(TechField(plans_df[FirstBracket], selected_plan))
              ELSE Float(0)
        /\ \A h \in Headcounts \ {0} :
              (\E i \in DOMAIN plans_df : ContainsHC(i, h))
              /\ FirstBracketOf(h) = FirstBracket
              => /\ WithHeadcount(h).enab_cost = result.enab_cost
                 /\ WithHeadcount(h).tech_cost = result.tech_cost
        /\ WithPlanToggles(enabling_toggle, ~technology_toggle).enab_cost
              = result.enab_cost
        /\ WithPlanToggles(~enabling_toggle, technology_toggle).tech_cost
              = result.tech_cost

C10_Witness ==
    /\ Succeeded /\ selected_plan = "Premium"
    /\ enabling_toggle /\ ~technology_toggle
    /\ headcount = 10
    /\ ContainsHC(FirstBracket, 45)
    /\ result.enab_cost # Float(0)
    /\ result.tech_cost = Float(0)

====
